---- MODULE Spec2Model ----
(***************************************************************************)
(* The process supervision core of the HLS server: the registry of active  *)
(* channels, the start / stop / restart of ffmpeg workers, the inactivity  *)
(* reaper and the manifest route.  The repository holds two builds of the  *)
(* server, stream-server.old.js ("old") and the file read here as          *)
(* src/unnamed/part_000 ("cur"); the variable build says which one runs.   *)
(*                                                                         *)
(* Node runs every callback to completion, so each action below is one     *)
(* callback (or one stretch of an async function between two awaits).      *)
(* The clock advances from one timer deadline to the next; everything the  *)
(* outside world does (a request, a disconnect, a worker dying or writing  *)
(* its playlist) can happen before or after any callback.                  *)
(***************************************************************************)
EXTENDS Integers, Sequences, FiniteSets, TLC

\* ------------------------------------------------------------ constants
INACTIVITY_LIMIT == 120000
CLEANUP_INTERVAL == 15000
RESTART_DELAY == 5000
KILL_DELAY == 5000
MAX_RETRY == 3
WAIT_BUDGET == 15000
FIRST_DELAY == 1000
DELAY_CAP == 3000
DELAY_STEP == 500
SAMPLE_INTERVAL == 5000
HISTORY_LIMIT == 100

\* --------------------------------------------------------------- bounds
\* The outside world is explored within one of three quotas, chosen at the
\* start: many workers over a short time (retries), few workers over a long
\* time (the reaper), overlapping requests with disconnects and launch
\* failures (the readiness loop).
RetryProcs == 6
RetryTime == 15000
ReaperProcs == 2
ReaperTime == 140000
WaiterProcs == 1
WaiterTime == 15000
MaxReqs == 2
MaxSize == 1
MaxStops == 1
MaxSamples == 102

\* procs: spawns; fails, writers: the first workers that may fail to launch,
\* that write a playlist; reqs, overlap: requests, and unfinished ones at a
\* time; closes: disconnects; stops: direct stopStream calls; time: the last
\* deadline reached.
Quotas ==
  { [procs |-> RetryProcs, fails |-> 0, writers |-> 0, reqs |-> MaxReqs,
     overlap |-> 1, closes |-> 0, stops |-> MaxStops, time |-> RetryTime],
    [procs |-> ReaperProcs, fails |-> 0, writers |-> 0, reqs |-> MaxReqs,
     overlap |-> 1, closes |-> 0, stops |-> 0, time |-> ReaperTime],
    [procs |-> WaiterProcs, fails |-> 1, writers |-> WaiterProcs, reqs |-> MaxReqs,
     overlap |-> MaxReqs, closes |-> MaxReqs, stops |-> MaxStops, time |-> WaiterTime] }

Builds == {"old", "cur"}
Channels == {"news1"}
BadId == "bad.id"
\* playlists/<ch>.m3u: absent, or its lines, each a sequence of characters
NoM3u == [exists |-> FALSE, lines |-> <<>>]
M3uStates ==
  {NoM3u} \cup
  { [exists |-> TRUE, lines |-> l] :
      l \in { << <<>> >>,
               << <<"#", "E">>, <<" ">> >>,
               << <<" ", "#", "E">>, <<" ", "h", " ">> >> } }

VARIABLES
  history,        \* the stats snapshots kept
  samplerDue,     \* next run of the stats setInterval
  calls,          \* stopStream calls made from outside the reaper, and what they returned
  quota,          \* how far the outside world is explored
  build,          \* which server file runs
  now,            \* Date.now()
  up,             \* the node process is running
  m3u,            \* playlists/<ch>.m3u
  active,         \* the Map active: channel -> index of its state object, 0 = none
  procs,          \* every state object (and its child process) created so far
  dir,            \* streams/<ch> exists
  playlist,       \* streams/<ch>/<ch>.m3u8: [by |-> writer, size |-> bytes], by = 0: absent
  restartTimers,  \* pending setTimeout(() => startStream(ch, retryCount + 1), 5000), oldest first
  killTimers,     \* pending SIGKILL escalations of stopStream
  reaperDue,      \* next run of the inactivity setInterval
  reqs,           \* the manifest requests received so far
  stats           \* the counters

vars == <<history, samplerDue, calls, quota, build, now, up, m3u, active, procs, dir, playlist, restartTimers,
          killTimers, reaperDue, reqs, stats>>

Min(S) == CHOOSE x \in S : \A y \in S : x <= y

NoFile == [by |-> 0, size |-> 0]

\* ------------------------------------------------------------- registry
HasEntryNever(ch) == FALSE

HasEntry(ch) == active[ch] # 0

\* String.prototype.trim on a line
RECURSIVE TrimLeft(_)
TrimLeft(l) == IF l # <<>> /\ Head(l) = " " THEN TrimLeft(Tail(l)) ELSE l

RECURSIVE TrimRight(_)
TrimRight(l) ==
  IF l # <<>> /\ l[Len(l)] = " " THEN TrimRight(SubSeq(l, 1, Len(l) - 1)) ELSE l

Trim(l) == TrimRight(TrimLeft(l))

\* l && !l.startsWith('#'), on a trimmed line
IsUrlLine(l) == l # <<>> /\ Head(l) # "#"

ParseM3UAny(ch) == m3u[ch].exists

\* fs.existsSync(m3u) and parseM3U(m3u) finding a line: startStream goes on
ParseM3U(ch) ==
  /\ m3u[ch].exists
  /\ \E i \in DOMAIN m3u[ch].lines : IsUrlLine(Trim(m3u[ch].lines[i]))

NewState(ch, retryCount, launched) ==
  [ch |-> ch, retryCount |-> retryCount,
   status |-> IF launched THEN "running" ELSE "failed",
   killed |-> FALSE, sig |-> "none",
   lastAccess |-> now, intentionalStop |-> FALSE]

\* startStream(ch, retryCount).  spawn() returns a ChildProcess either way; a
\* launch failure (ffmpeg missing, process limit) is reported later by 'error'.
StartStream(ch, retryCount) ==
  IF HasEntry(ch) \/ ~ParseM3U(ch)
  THEN UNCHANGED <<active, procs, dir, stats>>
  ELSE /\ Len(procs) < quota.procs
       /\ dir' = [dir EXCEPT ![ch] = TRUE]
       /\ \E launched \in (IF Len(procs) < quota.fails THEN BOOLEAN ELSE {TRUE}) :
            procs' = Append(procs, NewState(ch, retryCount, launched))
       /\ active' = [active EXCEPT ![ch] = Len(procs) + 1]
       /\ stats' = [stats EXCEPT !.totalStarted = @ + 1]

\* proc.on('error'): logged by the old build; the cur build has no listener, so
\* the 'error' event is thrown and ends the node process.  No 'exit' follows.
SpawnError(p) ==
  /\ up /\ p \in DOMAIN procs /\ procs[p].status = "failed"
  /\ procs' = [procs EXCEPT ![p].status = "errored"]
  /\ up' = (build = "old")
  /\ UNCHANGED <<history, samplerDue, calls, quota, build, now, m3u, active, dir, playlist, restartTimers,
                 killTimers, reaperDue, reqs, stats>>

\* ------------------------------------------------------------ the worker
\* ffmpeg terminates: a crash, the end of its input, or a signal it obeys.
ProcExit(p) ==
  /\ p \in DOMAIN procs /\ procs[p].status = "running"
  /\ procs' = [procs EXCEPT ![p].status = "exited"]
  /\ UNCHANGED <<history, samplerDue, calls, quota, build, now, up, m3u, active, dir, playlist, restartTimers,
                 killTimers, reaperDue, reqs, stats>>

\* ffmpeg (re)writes its playlist, of size bytes, in the channel's folder.
WorkerWrite(p, size) ==
  /\ p \in DOMAIN procs /\ procs[p].status = "running" /\ p <= quota.writers
  /\ dir[procs[p].ch]
  /\ playlist[procs[p].ch] # [by |-> p, size |-> size]
  /\ playlist' = [playlist EXCEPT ![procs[p].ch] = [by |-> p, size |-> size]]
  /\ UNCHANGED <<history, samplerDue, calls, quota, build, now, up, m3u, active, procs, dir, restartTimers,
                 killTimers, reaperDue, reqs, stats>>

\* ------------------------------------------------------- exit observer
ShouldRestart(st) == ~st.intentionalStop /\ st.retryCount < MAX_RETRY

NextRetrySame(retryCount) == retryCount

NextRetry(retryCount) == retryCount + 1

\* setTimeout(() => startStream(ch, retryCount + 1), 5000), when the exit calls for it
ScheduleRestart(p) ==
  IF ShouldRestart(procs[p])
  THEN Append(restartTimers, [by |-> p, ch |-> procs[p].ch,
                             retryCount |-> NextRetry(procs[p].retryCount),
                             due |-> now + RESTART_DELAY])
  ELSE restartTimers

CountStopNever(st) == st

\* stats.totalStopped++
CountStop(st) == [st EXCEPT !.totalStopped = @ + 1]

\* proc.on('exit'), up to its first await (old) or whole (cur)
ExitEvent(p) ==
  /\ up /\ p \in DOMAIN procs /\ procs[p].status = "exited"
  /\ active' = [active EXCEPT ![procs[p].ch] = 0]
  /\ stats' = CountStop(stats)
  /\ IF build = "old"
     THEN /\ procs' = [procs EXCEPT ![p].status = "access"]
          /\ UNCHANGED restartTimers
     ELSE /\ restartTimers' = ScheduleRestart(p)
          /\ procs' = [procs EXCEPT ![p].status =
                         IF procs[p].intentionalStop THEN "rm" ELSE "done"]
  /\ UNCHANGED <<history, samplerDue, calls, quota, build, now, up, m3u, dir, playlist, killTimers, reaperDue, reqs>>

\* safeDeleteFolder: fsp.access(dir) answers; a missing folder ends the cleanup
\* and the exit observer resumes at once.
FsAccess(p) ==
  /\ up /\ p \in DOMAIN procs /\ procs[p].status = "access"
  /\ IF dir[procs[p].ch]
     THEN /\ procs' = [procs EXCEPT ![p].status = "rm"]
          /\ UNCHANGED restartTimers
     ELSE /\ procs' = [procs EXCEPT ![p].status = "done"]
          /\ restartTimers' = ScheduleRestart(p)
  /\ UNCHANGED <<history, samplerDue, calls, quota, build, now, up, m3u, active, dir, playlist, killTimers,
                 reaperDue, reqs, stats>>

\* fsp.rm(dir, {recursive, force}) completes; the old build's exit observer
\* resumes after it, the cur build's does not wait for it.
FsRm(p) ==
  /\ up /\ p \in DOMAIN procs /\ procs[p].status = "rm"
  /\ dir' = [dir EXCEPT ![procs[p].ch] = FALSE]
  /\ playlist' = [playlist EXCEPT ![procs[p].ch] = NoFile]
  /\ procs' = [procs EXCEPT ![p].status = "done"]
  /\ restartTimers' = IF build = "old" THEN ScheduleRestart(p) ELSE restartTimers
  /\ UNCHANGED <<history, samplerDue, calls, quota, build, now, up, m3u, active, killTimers, reaperDue, reqs, stats>>

\* the restart timer fires; timers of one delay fire in the order they were set
RestartTimer ==
  /\ up /\ restartTimers # <<>> /\ now >= Head(restartTimers).due
  /\ restartTimers' = Tail(restartTimers)
  /\ StartStream(Head(restartTimers).ch, Head(restartTimers).retryCount)
  /\ UNCHANGED <<history, samplerDue, calls, quota, build, now, up, m3u, playlist, killTimers, reaperDue, reqs>>

\* ------------------------------------------------------ stop and reaper
\* ChildProcess.kill(sig): delivered while the handle exists (the exit has not
\* been observed); a delivered signal sets proc.killed.
HasHandle(st) == st.status \in {"running", "exited"}

Kill(st, sig) ==
  IF HasHandle(st)
  THEN [st EXCEPT !.killed = TRUE,
                  !.sig = IF st.status = "running" /\ @ # "SIGKILL" THEN sig ELSE @]
  ELSE st

StopStreamUnmarked(st) == Kill(st, "SIGTERM")

\* stopStream's synchronous effect on the state object it found
StopStream(st) == Kill([st EXCEPT !.intentionalStop = TRUE], "SIGTERM")

StopTargetLast(ch) ==
  IF active[ch] # 0 THEN active[ch]
  ELSE LET own == {p \in DOMAIN procs : procs[p].ch = ch} IN
         IF own = {} THEN 0 ELSE CHOOSE p \in own : \A q \in own : q <= p

\* const s = active.get(ch), 0 for undefined
StopTarget(ch) == active[ch]

\* stopStream(ch) called by anyone: false and nothing else without an entry
StopStreamCall(ch) ==
  /\ up /\ build = "old" /\ Len(calls) < quota.stops
  /\ LET s == StopTarget(ch) IN
       IF s = 0
       THEN /\ calls' = Append(calls, [ch |-> ch, ret |-> FALSE])
            /\ UNCHANGED <<procs, killTimers>>
       ELSE /\ calls' = Append(calls, [ch |-> ch, ret |-> TRUE])
            /\ procs' = [procs EXCEPT ![s] = StopStream(@)]
            /\ killTimers' = killTimers \cup {[proc |-> s, due |-> now + KILL_DELAY]}
  /\ UNCHANGED <<history, samplerDue, quota, build, now, up, m3u, active, dir, playlist,
                 restartTimers, reaperDue, reqs, stats>>

IsIdleAtLimit(st) == now - st.lastAccess >= INACTIVITY_LIMIT

IsIdle(st) == now - st.lastAccess > INACTIVITY_LIMIT

Reaped == {active[c] : c \in {c \in Channels : HasEntry(c) /\ IsIdle(procs[active[c]])}}

\* the inactivity setInterval: old calls stopStream(ch), cur stops inline
Reaper ==
  /\ up /\ now >= reaperDue
  /\ reaperDue' = reaperDue + CLEANUP_INTERVAL
  /\ procs' = [p \in DOMAIN procs |->
                 IF p \in Reaped THEN StopStream(procs[p]) ELSE procs[p]]
  /\ killTimers' = IF build = "old"
                   THEN killTimers \cup {[proc |-> p, due |-> now + KILL_DELAY] : p \in Reaped}
                   ELSE killTimers
  /\ UNCHANGED <<history, samplerDue, calls, quota, build, now, up, m3u, active, dir, playlist, restartTimers, reqs, stats>>

\* stopStream's timer: if (s.proc && !s.proc.killed) s.proc.kill('SIGKILL')
ForceKill(st) == IF ~st.killed THEN Kill(st, "SIGKILL") ELSE st

TimerTargetEntry(k) ==
  IF active[procs[k.proc].ch] # 0 THEN active[procs[k.proc].ch] ELSE k.proc

\* the s of the stopStream call that set the timer, held by the closure
TimerTarget(k) == k.proc

KillTimer(k) ==
  /\ up /\ k \in killTimers /\ now >= k.due
  /\ killTimers' = killTimers \ {k}
  /\ procs' = [procs EXCEPT ![TimerTarget(k)] = ForceKill(@)]
  /\ UNCHANGED <<history, samplerDue, calls, quota, build, now, up, m3u, active, dir, playlist, restartTimers,
                 reaperDue, reqs, stats>>

\* ------------------------------------------------------- manifest route
NewRequest(id) ==
  [ch |-> id, pc |-> IF build = "old" THEN "stat" ELSE "access",
   waited |-> 0, delay |-> IF build = "old" THEN FIRST_DELAY ELSE 0,
   clientConnected |-> TRUE, res |-> "none"]

\* the handler returns: its locals waited and delay are gone
Finish(rq, res) ==
  [rq EXCEPT !.pc = "done", !.res = res, !.waited = 0, !.delay = 0]

\* GET /hls/<id>.m3u8 up to its first await.  startStream does not throw
\* here (the folder can be created), so totalErrors stays as it is.
Request(id) ==
  /\ up /\ Len(reqs) < quota.reqs
  /\ Cardinality({r \in DOMAIN reqs : reqs[r].pc # "done"}) < quota.overlap
  /\ IF id \notin Channels
     THEN /\ reqs' = Append(reqs, Finish(NewRequest(id), "400"))
          /\ UNCHANGED <<active, procs, dir, stats>>
     ELSE /\ reqs' = Append(reqs, NewRequest(id))
          /\ IF ~HasEntry(id)
             THEN StartStream(id, 0)
             ELSE /\ procs' = [procs EXCEPT ![active[id]].lastAccess = now]
                  /\ UNCHANGED <<active, dir, stats>>
  /\ UNCHANGED <<history, samplerDue, calls, quota, build, now, up, m3u, playlist, restartTimers, killTimers, reaperDue>>

ClosedForChannel(rs, r) ==
  [q \in DOMAIN rs |->
     IF rs[q].ch = rs[r].ch THEN [rs[q] EXCEPT !.clientConnected = FALSE] ELSE rs[q]]

\* clientConnected = false, the variable of request r's own handler call
Closed(rs, r) == [rs EXCEPT ![r].clientConnected = FALSE]

\* req.on('close')
Disconnect(r) ==
  /\ up /\ build = "old" /\ r \in DOMAIN reqs
  /\ reqs[r].pc # "done" /\ reqs[r].clientConnected
  /\ Cardinality({q \in DOMAIN reqs : ~reqs[q].clientConnected}) < quota.closes
  /\ reqs' = Closed(reqs, r)
  /\ UNCHANGED <<history, samplerDue, calls, quota, build, now, up, m3u, active, procs, dir, playlist, restartTimers,
                 killTimers, reaperDue, stats>>

LoopContinues(rq) == rq.waited < WAIT_BUDGET /\ rq.clientConnected

Ready(f) == f.by # 0 /\ f.size > 0

\* await fsp.stat(playlist) answers
StatDone(r) ==
  /\ up /\ r \in DOMAIN reqs /\ reqs[r].pc = "stat"
  /\ LET f == playlist[reqs[r].ch] IN
       IF Ready(f)
       THEN /\ stats' = [stats EXCEPT !.bandwidth = @ + f.size]
            /\ reqs' = [reqs EXCEPT ![r] = Finish(@, "200")]
       ELSE /\ reqs' = [reqs EXCEPT ![r].pc = "wait"]
            /\ UNCHANGED stats
  /\ UNCHANGED <<history, samplerDue, calls, quota, build, now, up, m3u, active, procs, dir, playlist, restartTimers,
                 killTimers, reaperDue>>

NextDelay(delay) == IF delay < DELAY_CAP THEN delay + DELAY_STEP ELSE delay

\* the wait's timer fires: the loop's bookkeeping, its test, and its exit.
\* The loop measures its budget by its own counter waited, never by the
\* clock, so the wait is not tied to now: it may end before or after any
\* other event.
WaitDone(r) ==
  /\ up /\ r \in DOMAIN reqs /\ reqs[r].pc = "wait"
  /\ LET rq == [reqs[r] EXCEPT !.waited = @ + reqs[r].delay,
                               !.delay = NextDelay(@)]
     IN reqs' = [reqs EXCEPT ![r] =
                   IF LoopContinues(rq) THEN [rq EXCEPT !.pc = "stat"]
                   ELSE IF rq.clientConnected THEN Finish(rq, "503")
                   ELSE Finish(rq, "none")]
  /\ UNCHANGED <<history, samplerDue, calls, quota, build, now, up, m3u, active, procs, dir, playlist, restartTimers,
                 killTimers, reaperDue, stats>>

\* cur build: await fsp.access(playlist), then await fsp.readFile(playlist);
\* either failing sends the placeholder manifest if it exists, else 202.
FileStep(r) ==
  /\ up /\ r \in DOMAIN reqs /\ reqs[r].pc \in {"access", "read"}
  /\ IF playlist[reqs[r].ch].by # 0
     THEN reqs' = [reqs EXCEPT ![r] =
                     IF @.pc = "access" THEN [@ EXCEPT !.pc = "read"] ELSE Finish(@, "200")]
     ELSE \E res \in {"placeholder", "202"} :
            reqs' = [reqs EXCEPT ![r] = Finish(@, res)]
  /\ UNCHANGED <<history, samplerDue, calls, quota, build, now, up, m3u, active, procs, dir, playlist, restartTimers,
                 killTimers, reaperDue, stats>>

\* ---------------------------------------------------------------- clock
Dues ==
  {restartTimers[i].due : i \in DOMAIN restartTimers} \cup {k.due : k \in killTimers} \cup {reaperDue}

\* Time passes until the next timer is due, and a due timer fires before
\* time passes again.  now is the deadline last reached: what happens before
\* the next one reads this value from Date.now().
Tick ==
  /\ up /\ \A d \in Dues : d > now
  /\ Min(Dues) <= quota.time
  /\ now' = Min(Dues)
  /\ UNCHANGED <<history, samplerDue, calls, quota, build, up, m3u, active, procs, dir, playlist, restartTimers,
                 killTimers, reaperDue, reqs, stats>>

Init ==
  /\ history = <<>>
  /\ samplerDue = SAMPLE_INTERVAL
  /\ calls = <<>>
  /\ quota \in Quotas
  /\ build \in Builds
  /\ now = 0
  /\ up = TRUE
  /\ m3u \in [Channels -> M3uStates]
  /\ active = [c \in Channels |-> 0]
  /\ procs = <<>>
  /\ dir = [c \in Channels |-> FALSE]
  /\ playlist = [c \in Channels |-> NoFile]
  /\ restartTimers = <<>>
  /\ killTimers = {}
  /\ reaperDue = CLEANUP_INTERVAL
  /\ reqs = <<>>
  /\ stats = [totalStarted |-> 0, totalStopped |-> 0, totalErrors |-> 0, bandwidth |-> 0]

\* ================================================================ claims
\* the restart timers pending
Pending == {restartTimers[i] : i \in DOMAIN restartTimers}

\* the step in which p's exit observer decides whether to restart
Decides(p) ==
  \/ build = "old" /\ procs[p].status \in {"access", "rm"} /\ procs'[p].status = "done"
  \/ build = "cur" /\ procs[p].status = "exited" /\ procs'[p].status # "exited"

\* C1: requests for one channel spawn one worker and insert one entry: no step
\* creates a state object for a channel that has an entry, a step creates at
\* most one and inserts it, a restart timer that finds an entry changes
\* nothing, and at most one state object per channel awaits its exit.
C1_SingleSpawn ==
  [][\A c \in Channels :
       LET born == {p \in DOMAIN procs' \ DOMAIN procs : procs'[p].ch = c} IN
         /\ Cardinality(born) <= 1
         /\ active[c] # 0 => born = {} /\ active'[c] \in {active[c], 0}
         /\ born # {} => /\ active'[c] \in born
                         /\ stats'.totalStarted = stats.totalStarted + 1
         /\ (active[c] # 0 /\ \E t \in Pending \ Pending' : t.ch = c)
              => UNCHANGED <<active, procs, dir, stats>>
         /\ Cardinality({p \in DOMAIN procs' : procs'[p].ch = c /\
               procs'[p].status \in {"running", "failed", "errored", "exited"}}) <= 1
    ]_vars

\* two requests for the same channel, both still waiting, and one worker
C1_Witness ==
  /\ Len(reqs) = 2 /\ reqs[1].ch = reqs[2].ch
  /\ reqs[1].pc # "done" /\ reqs[2].pc # "done"
  /\ Len(procs) = 1 /\ procs[1].status = "running" /\ active[reqs[1].ch] = 1
  /\ stats.totalStarted = 1

\* C2: a channel has an entry exactly when one worker launched for it is
\* starting or running (its exit not yet observed), and the entry is that worker.
C2_EntryIffAlive ==
  \A c \in Channels :
    LET alive == {p \in DOMAIN procs : procs[p].ch = c /\
                    procs[p].status \in {"running", "failed", "exited"}} IN
      /\ Cardinality(alive) <= 1
      /\ active[c] # 0 <=> alive # {}
      /\ active[c] # 0 => active[c] \in alive

\* C3 as amended: every unintentional exit of a worker with retryCount < 3
\* schedules exactly one restart, 5000 ms ahead, carrying retryCount + 1; the
\* exit of the worker with retryCount 3 (the fourth of its lineage) schedules
\* none; and observing an exit leaves the channel without entry.
C3_RestartPerExit ==
  [][\A p \in DOMAIN procs :
       /\ (procs[p].status = "exited" /\ procs'[p].status # "exited")
            => active'[procs[p].ch] = 0
       /\ Decides(p) =>
            LET t == [by |-> p, ch |-> procs[p].ch,
                      retryCount |-> procs[p].retryCount + 1, due |-> now + 5000] IN
              IF ~procs[p].intentionalStop /\ procs[p].retryCount < 3
              THEN t \notin Pending /\ Pending' = Pending \cup {t}
              ELSE Pending' = Pending
    ]_vars

\* the worker with retryCount 3 has exited unintentionally and nothing restarts it
C3_Witness ==
  \E p \in DOMAIN procs :
    /\ procs[p].retryCount = 3 /\ procs[p].status = "done" /\ ~procs[p].intentionalStop
    /\ Pending = {} /\ active[procs[p].ch] = 0

\* C3 as stated: the worker with retryCount k exits as the (k+1)-th of its
\* lineage; the first and second exits are restarted, the third is not.
C3_ThirdExitEnds ==
  [][\A p \in DOMAIN procs :
       Decides(p) =>
         IF ~procs[p].intentionalStop /\ procs[p].retryCount + 1 < 3
         THEN Pending' # Pending
         ELSE Pending' = Pending
    ]_vars

\* the worker started before p for the same channel, 0 if none
Previous(p) ==
  LET before == {q \in 1..(p - 1) : procs[q].ch = procs[p].ch} IN
    IF before = {} THEN 0 ELSE CHOOSE q \in before : \A x \in before : x <= q

\* C4: a restart is scheduled exactly for unintentional exits with
\* retryCount < 3 and carries retryCount + 1, no worker has retryCount > 3,
\* a request starts a worker at 0, and after a worker with retryCount >= 3
\* exited unintentionally the channel's next worker is one a request started.
C4_RetryBound ==
  [][/\ \A p \in DOMAIN procs :
          Decides(p) =>
            IF ~procs[p].intentionalStop /\ procs[p].retryCount < 3
            THEN Pending' = Pending \cup
                   {[by |-> p, ch |-> procs[p].ch,
                     retryCount |-> procs[p].retryCount + 1, due |-> now + 5000]}
            ELSE Pending' = Pending
     /\ \A p \in DOMAIN procs' \ DOMAIN procs :
          IF Len(reqs') # Len(reqs)
          THEN procs'[p].retryCount = 0
          ELSE \E t \in Pending \ Pending' :
                 procs'[p].retryCount = t.retryCount
     /\ \A p \in DOMAIN procs' :
          /\ procs'[p].retryCount <= 3
          /\ (Previous(p)' # 0 /\ procs'[Previous(p)'].retryCount >= 3
                /\ ~procs'[Previous(p)'].intentionalStop)
               => procs'[p].retryCount = 0
    ]_vars

\* C5: a sweep marks every entry idle for more than 120000 ms intentionalStop
\* and signals it, a signalled worker is always marked, and no restart is
\* ever pending from the exit of a marked worker.
C5_ReaperStops ==
  [][/\ reaperDue' # reaperDue =>
          \A c \in Channels :
            (active[c] # 0 /\ now - procs[active[c]].lastAccess > 120000)
              => /\ procs'[active[c]].intentionalStop
                 /\ procs[active[c]].status \in {"running", "exited"}
                      => procs'[active[c]].killed
     /\ \A p \in DOMAIN procs' :
          /\ procs'[p].sig # "none" => procs'[p].intentionalStop
          /\ procs'[p].intentionalStop => \A t \in Pending' : t.by # p
    ]_vars

\* a worker never asked for again was stopped by a sweep, its exit is handled
\* and nothing restarts it
C5_Witness ==
  \E p \in DOMAIN procs :
    /\ procs[p].intentionalStop /\ procs[p].killed /\ procs[p].status = "done"
    /\ now - procs[p].lastAccess > 120000
    /\ Pending = {} /\ active[procs[p].ch] = 0

\* C6: when the forced-termination timer of a stop fires and the worker has
\* not exited, the worker is sent SIGKILL.
C6_ForcedKill ==
  [][\A k \in killTimers \ killTimers' :
       procs[k.proc].status = "running" => procs'[k.proc].sig = "SIGKILL"
    ]_vars

\* C7: a worker whose launch failed has no entry in the registry and no
\* restart pending.
C7_NoEntryOnLaunchFailure ==
  \A p \in DOMAIN procs :
    procs[p].status \in {"failed", "errored"}
      => active[procs[p].ch] # p /\ \A t \in Pending : t.by # p

\* C8: once a worker's exit is fully handled, nothing it wrote is left in the
\* channel's folder.
C8_FolderDeleted ==
  \A p \in DOMAIN procs :
    procs[p].status = "done" => playlist[procs[p].ch].by # p

\* C9: a connected consumer's request ends with success or with "not ready",
\* and never with "not ready" while the manifest is non-empty and less than
\* 15000 ms of its budget are used.
C9_ReadyMeansSuccess ==
  [][\A r \in DOMAIN reqs :
       (reqs[r].pc # "done" /\ reqs'[r].pc = "done" /\ reqs[r].clientConnected)
         => /\ reqs'[r].res \in {"200", "503", "placeholder", "202"}
            /\ (Ready(playlist[reqs[r].ch]) /\ reqs[r].waited < 15000)
                 => reqs'[r].res = "200"
    ]_vars

\* C10: once its consumer's disconnect is observed a request has no wait
\* timer pending, starts no poll, adds nothing to the bandwidth counter and
\* sends no response.
C10_AbortOnDisconnect ==
  [][\A r \in DOMAIN reqs :
       ~reqs'[r].clientConnected =>
         /\ reqs'[r].pc # "wait"
         /\ ~reqs[r].clientConnected =>
              /\ reqs[r].pc # "stat" => reqs'[r].pc # "stat"
              /\ reqs'[r].res = "none"
              /\ reqs'[r] # reqs[r] => stats'.bandwidth = stats.bandwidth
    ]_vars

\* C11: a stopStream call for a channel without entry returns false and
\* changes nothing: not the registry, no state object (its intentionalStop,
\* killed and signal), no counter, no timer, no file.
C11_StopWithoutEntry ==
  [][Len(calls') > Len(calls) =>
       LET c == calls'[Len(calls')] IN
         active[c.ch] = 0 =>
           /\ ~c.ret
           /\ UNCHANGED <<active, procs, stats, restartTimers, killTimers, reaperDue,
                          dir, playlist, reqs, now, up>>
    ]_vars

\* stopStream returned false for a channel that has no entry while a restart
\* of that channel is pending
C11_Witness ==
  \E i \in DOMAIN calls :
    /\ ~calls[i].ret /\ active[calls[i].ch] = 0
    /\ \E t \in Pending : t.ch = calls[i].ch /\ t.due > now
    /\ killTimers = {}
    /\ \A p \in DOMAIN procs : ~procs[p].intentionalStop /\ procs[p].sig = "none"

\* C13: history never holds more than 100 snapshots, and it holds the most
\* recent min(n, 100) of the n taken so far, oldest first.
C13_HistoryBounded ==
  LET n == (samplerDue \div 5000) - 1 IN
    /\ Len(history) <= 100
    /\ build = "old" => Len(history) = (IF n < 100 THEN n ELSE 100)
    /\ build = "cur" => history = <<>>
    /\ \A i \in DOMAIN history :
         history[i].timestamp = 5000 * (n - Len(history) + i)

\* the 101st snapshot was taken and the first one is gone
C13_Witness ==
  /\ samplerDue = 102 * 5000 /\ Len(history) = 100
  /\ history[1].timestamp = 2 * 5000 /\ history[100].timestamp = 101 * 5000

\* C14: a forced-termination timer that fires leaves every state object but
\* the one its stopStream call found as it was (no signal, no intentionalStop
\* set on a worker started since), and leaves the registry as it was.
C14_TimerKeepsItsHandle ==
  [][\A k \in killTimers \ killTimers' :
       /\ \A q \in DOMAIN procs : q # k.proc => procs'[q] = procs[q]
       /\ procs'[k.proc].intentionalStop = procs[k.proc].intentionalStop
       /\ active' = active
    ]_vars

\* the reaper stopped a worker, it exited, a request started the next worker
\* of the channel, and the timer of the stop has fired: the new worker runs
\* unsignalled and unmarked
C14_Witness ==
  \E p, q \in DOMAIN procs :
    /\ build = "old" /\ p < q /\ procs[p].ch = procs[q].ch
    /\ procs[p].intentionalStop /\ procs[p].killed /\ procs[p].status = "done"
    /\ killTimers = {} /\ now >= procs[p].lastAccess + 120000 + 5000
    /\ active[procs[q].ch] = q /\ procs[q].status = "running"
    /\ procs[q].lastAccess < now
    /\ ~procs[q].killed /\ procs[q].sig = "none" /\ ~procs[q].intentionalStop

C16_CountersMatchRegistry ==
  [][LET entries == Cardinality({c \in Channels : active[c] # 0})
         inserted == Cardinality({c \in Channels : active'[c] \notin {0, active[c]}})
         observed == Cardinality({p \in DOMAIN procs :
                        procs[p].status = "exited" /\ procs'[p].status # "exited"})
     IN /\ stats'.totalStarted = stats.totalStarted + inserted
        /\ stats'.totalStopped = stats.totalStopped + observed
        /\ stats.totalStarted - stats.totalStopped = entries
        /\ stats'.totalStarted - stats'.totalStopped = entries'
    ]_vars

\* three workers were started, two exits were observed, one entry is left
C16_Witness ==
  /\ stats.totalStarted = 3 /\ stats.totalStopped = 2
  /\ Cardinality({c \in Channels : active[c] # 0}) = 1

\* C17: a sweep leaves every state object whose idle time is at most
\* 120000 ms as it was (unmarked, unsignalled), and a request that finds an
\* entry sets its lastAccess to now.
C17_BusyChannelKept ==
  [][/\ reaperDue' # reaperDue =>
          \A p \in DOMAIN procs :
            now - procs[p].lastAccess <= 120000 => procs'[p] = procs[p]
     /\ Len(reqs') > Len(reqs) =>
          LET c == reqs'[Len(reqs')].ch IN
            (c \in Channels /\ active[c] # 0)
              => /\ procs'[active[c]].lastAccess = now
                 /\ active' = active
    ]_vars

\* a worker started by the first request and asked for again by the second
\* has been idle for exactly 120000 ms at the sweep of 135 s, and that sweep
\* has left it running, unmarked and unsignalled
C17_Witness ==
  /\ Len(reqs) = 2 /\ reqs[1].ch = reqs[2].ch /\ Len(procs) = 1
  /\ now = 135000 /\ reaperDue > now
  /\ active[reqs[1].ch] = 1 /\ procs[1].lastAccess = now - 120000
  /\ procs[1].status = "running"
  /\ ~procs[1].intentionalStop /\ ~procs[1].killed /\ procs[1].sig = "none"

\* C18: the step in which a request's disconnect is observed changes that
\* request's clientConnected flag and nothing else: not the registry, no
\* state object, no counter, no timer, no file, no other request.
C18_DisconnectIsLocal ==
  [][\A r \in DOMAIN reqs :
       (reqs[r].clientConnected /\ ~reqs'[r].clientConnected) =>
         /\ reqs' = [reqs EXCEPT ![r].clientConnected = FALSE]
         /\ UNCHANGED <<active, procs, stats, restartTimers, killTimers, reaperDue,
                        dir, playlist, now, up>>
    ]_vars

\* one consumer has gone while the other still polls and the worker runs,
\* unsignalled, in the registry
C18_Witness ==
  \E r, o \in DOMAIN reqs :
    /\ r # o /\ reqs[r].ch = reqs[o].ch /\ reqs[r].ch \in Channels
    /\ ~reqs[r].clientConnected
    /\ reqs[o].clientConnected /\ reqs[o].pc \in {"stat", "wait"} /\ reqs[o].waited > 0
    /\ active[reqs[r].ch] # 0
    /\ procs[active[reqs[r].ch]].status = "running"
    /\ procs[active[reqs[r].ch]].sig = "none"
    /\ ~procs[active[reqs[r].ch]].intentionalStop

\* C19: no step deletes the folder of a channel that has an entry: a channel
\* with a launched worker in the registry has its folder, before and after
\* every step.
C19_FolderKeptWhileEntry ==
  [][\A c \in Channels :
       (active'[c] # 0 /\ procs'[active'[c]].status = "running") => dir'[c]
    ]_vars

\* C20: no channel ever has more than one restart timer pending.
C20_OneRestartPending ==
  \A c \in Channels : Cardinality({t \in Pending : t.ch = c}) <= 1

\* C12: for a channel whose .m3u is missing or has no URL line nothing is ever
\* started (no folder, no state object, no entry, totalStarted counts only
\* the other channels' workers), and a request for it that is answered is
\* answered "not ready" (503; the placeholder or 202 in the cur build).
C12_NoSourceNoStart ==
  \A c \in Channels :
    (~m3u[c].exists \/ \A i \in DOMAIN m3u[c].lines :
        LET l == m3u[c].lines[i] IN
          \/ \A j \in DOMAIN l : l[j] = " "
          \/ \E j \in DOMAIN l : l[j] = "#" /\ \A k \in 1..(j - 1) : l[k] = " ")
      => /\ active[c] = 0 /\ ~dir[c]
         /\ \A p \in DOMAIN procs : procs[p].ch # c
         /\ stats.totalStarted = Len(procs)
         /\ \A r \in DOMAIN reqs :
              (reqs[r].ch = c /\ reqs[r].pc = "done")
                => reqs[r].res \in {"503", "placeholder", "202", "none"}

\* a file with only a comment and a blank line: the request was answered 503
\* after the whole wait and nothing was started
C12_Witness ==
  \E c \in Channels, r \in DOMAIN reqs :
    /\ m3u[c].exists /\ Len(m3u[c].lines) = 2
    /\ \A i \in DOMAIN m3u[c].lines : ~IsUrlLine(Trim(m3u[c].lines[i]))
    /\ reqs[r].ch = c /\ reqs[r].pc = "done" /\ reqs[r].res = "503"
    /\ procs = <<>> /\ active[c] = 0 /\ ~dir[c] /\ stats.totalStarted = 0

Next ==
  \/ \E id \in Channels \cup {BadId} : Request(id)
  \/ \E r \in DOMAIN reqs : Disconnect(r)
  \/ \E r \in DOMAIN reqs : StatDone(r)
  \/ \E r \in DOMAIN reqs : WaitDone(r)
  \/ \E r \in DOMAIN reqs : FileStep(r)
  \/ \E p \in DOMAIN procs : SpawnError(p)
  \/ \E p \in DOMAIN procs : ProcExit(p)
  \/ \E p \in DOMAIN procs, size \in 0..MaxSize : WorkerWrite(p, size)
  \/ \E p \in DOMAIN procs : ExitEvent(p)
  \/ \E p \in DOMAIN procs : FsAccess(p)
  \/ \E p \in DOMAIN procs : FsRm(p)
  \/ RestartTimer
  \/ \E k \in killTimers : KillTimer(k)
  \/ Reaper
  \/ Tick

Spec == Init /\ [][Next]_vars

\* ---------------------------------------------------------- stats sampler
\* collectSystemStats(), as far as the server's own state decides it
CollectSystemStats == [timestamp |-> now, active |-> Cardinality({c \in Channels : HasEntry(c)})]

PushedDropNewest(h, snap) ==
  IF Len(h) + 1 > HISTORY_LIMIT THEN h ELSE Append(h, snap)

\* history.push(snap); if (history.length > 100) history.shift()
Pushed(h, snap) ==
  LET pushed == Append(h, snap) IN
    IF Len(pushed) > HISTORY_LIMIT THEN Tail(pushed) ELSE pushed

\* the stats setInterval (old build only; the cur build never fills history)
Sampler ==
  /\ up /\ build = "old" /\ now >= samplerDue
  /\ history' = Pushed(history, CollectSystemStats)
  /\ samplerDue' = samplerDue + SAMPLE_INTERVAL
  /\ UNCHANGED <<calls, quota, build, now, up, m3u, active, procs, dir, playlist,
                 restartTimers, killTimers, reaperDue, reqs, stats>>

\* time passes until the sampler is due
SamplerTick ==
  /\ up /\ build = "old" /\ now < samplerDue
  /\ samplerDue <= MaxSamples * SAMPLE_INTERVAL
  /\ now' = samplerDue
  /\ UNCHANGED <<history, samplerDue, calls, quota, build, up, m3u, active, procs, dir,
                 playlist, restartTimers, killTimers, reaperDue, reqs, stats>>

\* The sampler writes history and nothing else, and nothing else writes
\* history, so it is run on its own.
NextSampler ==
  \/ Sampler
  \/ SamplerTick

SpecSampler == Init /\ [][NextSampler]_vars

\* the server with stopStream open to other callers than the reaper
NextStop ==
  \/ Next
  \/ \E ch \in Channels : StopStreamCall(ch)

SpecStop == Init /\ [][NextStop]_vars
====
